---- MODULE Spec2Model ----
(***************************************************************************)
(* A model of the microblog application's data model and consistency      *)
(* rules: the follower graph and the timeline query (app/models.py), the  *)
(* notification feed and its polling endpoint (app/models.py,            *)
(* app/main/routes.py), the commit hooks that mirror posts into the       *)
(* search index and the search functions (app/models.py, app/search.py),  *)
(* the background tasks (app/models.py, app/tasks.py), the API tokens     *)
(* (app/models.py), the uniqueness of account names (app/auth/forms.py,   *)
(* app/main/forms.py, app/main/routes.py) and the unread message count    *)
(* (app/main/routes.py, app/models.py).                                   *)
(*                                                                         *)
(* Every subsystem has its own variables and its own specification; the   *)
(* variables of the other subsystems stay at their initial values.        *)
(***************************************************************************)
EXTENDS Integers, Sequences, FiniteSets, TLC

VARIABLES
    followers,  \* the association table: a set of <<follower_id, followed_id>>
    raised,     \* whether the last graph operation raised an error
    last,       \* observer: the last graph operation, [op, a, b]
    posts,      \* the Post table as seen by the timeline: Seq of [id, author, timestamp]
    now,        \* the wall clock read by Post.timestamp's default
    notifications, \* the committed Notification table: a set of rows
    nextNid,    \* the next autoincrement Notification.id
    ntime,      \* the last value time() returned to a Notification.timestamp default
    nlast,      \* observer: the last add_notification call run on its own
    txn,        \* per process, the open transaction of its add_notification call
    serialWrites, \* whether the store lets one transaction write at a time (SQLite)
    cursor,     \* the polling client's since value: the largest timestamp received
    received,   \* observer: the <<id, timestamp>> of the rows the client received
    redelivered, \* observer: whether a poll returned a row the client already had
    store,      \* the committed rows of the searchable and other tables
    view,       \* the rows as the session's open transaction sees them
    session_new,     \* session.new: pending objects, not yet flushed
    session_dirty,   \* session.dirty: persistent objects with unflushed changes
    session_deleted, \* session.deleted: objects marked for deletion, not yet flushed
    index,      \* the documents of the search engine
    hookRaised, \* whether the last after_commit hook ended in an exception
    sop,        \* observer: the last session operation
    elasticsearch, \* current_app.elasticsearch: "none", or a client whose server is "up" or "down"
    elast,      \* observer: the last call of app/search.py made on its own
    tasks,      \* the committed Task table: a set of [id, user_id, complete]
    added,      \* the Task objects a request has added to its session and not yet committed
    job,        \* per rq job: where the worker is in export_posts, and its locals and meta
    uposts,     \* per user, the number of committed posts
    tlast,      \* observer: the last call of _set_task_progress, and the parity of the calls
    token,      \* per user, User.token (NoToken for NULL)
    token_expiration, \* per user, User.token_expiration in seconds (NoTime for NULL)
    utcnow,     \* datetime.now(timezone.utc), in seconds
    ticks,      \* the number of times the clock has been advanced
    issued,     \* observer: per token string, the users get_token has issued it to
    revoked,    \* observer: the users whose last token operation is revoke_token
    klast,      \* observer: the last token operation
    accounts,   \* the committed User table: a set of [id, username, email]
    nextUid,    \* the next autoincrement User.id
    req,        \* per request process, the form it has validated and not yet committed
    outcome,    \* observer: per request process, how its last request ended
    messages,   \* the committed Message rows addressed to the recipient: a set of [id, timestamp]
    nextMid,    \* the next autoincrement Message.id
    last_message_read_time, \* the recipient's committed last_message_read_time (0 for NULL)
    mclock,     \* the last value datetime.now(timezone.utc) returned
    mtxn        \* per request process, its open send_message or view_message request

graphVars == <<followers, raised, last>>
timelineVars == <<posts, now>>

notifVars == <<notifications, nextNid, ntime, nlast>>

concVars == <<txn, serialWrites, cursor, received, redelivered>>

sessionVars == <<store, view, session_new, session_dirty, session_deleted>>
searchVars == <<sessionVars, index, hookRaised, sop>>

engineVars == <<elasticsearch, elast>>

taskVars == <<tasks, added, job, uposts, tlast>>

tokenVars == <<token, token_expiration, utcnow, ticks, issued, revoked, klast>>

accountVars == <<accounts, nextUid, req, outcome>>
msgVars == <<messages, nextMid, last_message_read_time, mclock, mtxn>>

\* the variables outside the search engine's, outside the tasks', ...
otherVars == <<taskVars, tokenVars, accountVars, msgVars>>
nonTaskVars == <<engineVars, tokenVars, accountVars, msgVars>>
nonTokenVars == <<engineVars, taskVars, accountVars, msgVars>>
nonAccountVars == <<engineVars, taskVars, tokenVars, msgVars>>
nonMsgVars == <<engineVars, taskVars, tokenVars, accountVars>>

laterVars == <<engineVars, taskVars, tokenVars, accountVars, msgVars>>

vars == <<graphVars, timelineVars, notifVars, concVars, searchVars, laterVars>>

(***************************************************************************)
(* Bounds                                                                  *)
(***************************************************************************)
MaxPosts == 2
MaxClock == 2
MaxNotifs == 3
MaxNTime == 3
MaxJobPosts == 2
MaxTaskNotifs == 3
MaxTicks == 3
MaxAccounts == 3
MaxMsgClock == 4

Users == {"alice", "bob", "carol"}
NoUser == "nobody"
Usernames == Users \cup {"ghost"}

(***************************************************************************)
(* Social graph: User.follow / User.unfollow / User.is_following           *)
(***************************************************************************)

\* sa.select(User).where(User.username == username): the account or None
UserByName(username) == IF username \in Users THEN username ELSE NoUser

\* User.is_following: a row (self, user) exists in the association table
is_following(self, user) == <<self, user>> \in followers

\* self.following.add(user): INSERT into followers; the compound primary key
\* rejects a second row for the same pair (IntegrityError at flush)
following_add(self, user) ==
    IF <<self, user>> \in followers
    THEN /\ raised' = TRUE
         /\ UNCHANGED followers
    ELSE /\ raised' = FALSE
         /\ followers' = followers \cup {<<self, user>>}

\* self.following.remove(user): DELETE of the row; deleting a row that is not
\* there matches 0 rows where 1 was expected (StaleDataError at flush)
following_remove(self, user) ==
    IF <<self, user>> \notin followers
    THEN /\ raised' = TRUE
         /\ UNCHANGED followers
    ELSE /\ raised' = FALSE
         /\ followers' = followers \ {<<self, user>>}

\* a plausible slip: follow without the is_following guard
follow_unguarded(self, user) == following_add(self, user)

\* User.follow
follow(self, user) ==
    IF ~is_following(self, user)
    THEN following_add(self, user)
    ELSE /\ raised' = FALSE
         /\ UNCHANGED followers

\* User.unfollow
unfollow(self, user) ==
    IF is_following(self, user)
    THEN following_remove(self, user)
    ELSE /\ raised' = FALSE
         /\ UNCHANGED followers

NoOp == [op |-> "none", a |-> NoUser, b |-> NoUser, had |-> FALSE]

\* a direct call of User.follow followed by db.session.commit()
Follow(a, b) ==
    /\ follow(a, b)
    /\ last' = [op |-> "follow", a |-> a, b |-> b, had |-> is_following(a, b)]
    /\ UNCHANGED <<timelineVars, notifVars, concVars, searchVars, laterVars>>

\* a direct call of User.unfollow followed by db.session.commit()
Unfollow(a, b) ==
    /\ unfollow(a, b)
    /\ last' = [op |-> "unfollow", a |-> a, b |-> b, had |-> is_following(a, b)]
    /\ UNCHANGED <<timelineVars, notifVars, concVars, searchVars, laterVars>>

\* POST /follow/<username> by the logged-in account cur
FollowRoute(cur, username) ==
    LET user == UserByName(username) IN
    IF user = NoUser \/ user = cur
    THEN /\ last' = NoOp
         /\ raised' = FALSE
         /\ UNCHANGED <<followers, timelineVars, notifVars, concVars, searchVars, laterVars>>
    ELSE Follow(cur, user)

\* POST /unfollow/<username> by the logged-in account cur
UnfollowRoute(cur, username) ==
    LET user == UserByName(username) IN
    IF user = NoUser \/ user = cur
    THEN /\ last' = NoOp
         /\ raised' = FALSE
         /\ UNCHANGED <<followers, timelineVars, notifVars, concVars, searchVars, laterVars>>
    ELSE Unfollow(cur, user)

GraphInit ==
    /\ followers = {}
    /\ raised = FALSE
    /\ last = NoOp

TimelineInit ==
    /\ posts = <<>>
    /\ now = 1

(***************************************************************************)
(* Timeline: User.following_posts                                          *)
(***************************************************************************)
NULL == "NULL"

PostIds == 1..Len(posts)
PostRows == {posts[i] : i \in PostIds}

\* Author.followers of an author: the follower_id of every row that has the
\* author as followed_id
FollowersOf(author) == {e[1] : e \in {x \in followers : x[2] = author}}

\* a plausible slip: an inner join, which drops the posts of authors without followers
JoinRowsInner ==
    UNION {{[post |-> p, follower |-> f] : f \in FollowersOf(p.author)}
           : p \in PostRows}

\* select(Post).join(Post.author.of_type(Author))
\*             .join(Author.followers.of_type(Follower), isouter=True):
\* one row per (post, follower of its author), and one row with a NULL
\* follower for a post whose author has no follower
JoinRows ==
    UNION {IF FollowersOf(p.author) = {}
           THEN {[post |-> p, follower |-> NULL]}
           ELSE {[post |-> p, follower |-> f] : f \in FollowersOf(p.author)}
           : p \in PostRows}

\* .where(or_(Follower.id == self.id, Author.id == self.id))
WhereRows(self) ==
    {r \in JoinRows : r.follower = self \/ r.post.author = self}

\* a plausible slip: no group_by, every joined row is returned
NoGroupBy(rows) == rows

\* .group_by(Post): one row per post
GroupByPost(rows) ==
    {CHOOSE r \in rows : r.post = p : p \in {x.post : x \in rows}}

\* the orders ORDER BY timestamp DESC can return the rows in: any order that
\* never puts a row before one with a later timestamp (ties are not ordered)
RECURSIVE OrderByTimestampDesc(_)
OrderByTimestampDesc(rows) ==
    IF rows = {} THEN {<<>>}
    ELSE UNION {{<<r.post>> \o s : s \in OrderByTimestampDesc(rows \ {r})}
                : r \in {x \in rows :
                           \A y \in rows : y.post.timestamp <= x.post.timestamp}}

\* User.following_posts: the lists of posts the query can return
following_posts(self) == OrderByTimestampDesc(GroupByPost(WhereRows(self)))

\* the index route on POST: Post(body, author=current_user), add, commit
NewPost(cur) ==
    /\ Len(posts) < MaxPosts
    /\ posts' = Append(posts, [id |-> Len(posts) + 1, author |-> cur, timestamp |-> now])
    /\ UNCHANGED <<now, graphVars, notifVars, concVars, searchVars, laterVars>>

\* time passes
Tick ==
    /\ now < MaxClock
    /\ now' = now + 1
    /\ UNCHANGED <<posts, graphVars, notifVars, concVars, searchVars, laterVars>>

\* follow and unfollow as seen by the timeline (the observer is not kept)
TFollow(a, b) ==
    /\ follow(a, b)
    /\ UNCHANGED <<last, timelineVars, notifVars, concVars, searchVars, laterVars>>

TUnfollow(a, b) ==
    /\ unfollow(a, b)
    /\ UNCHANGED <<last, timelineVars, notifVars, concVars, searchVars, laterVars>>

(***************************************************************************)
(* Notification feed: User.add_notification and the notifications route    *)
(***************************************************************************)
Names == {"unread_message_count", "task_progress"}

\* the payloads the application passes: a count (send_message, view_message)
\* or a dict {task_id, progress} (_set_task_progress)
JsonValues ==
    {[int |-> 0], [int |-> 1], [task_id |-> "job1", progress |-> 100]}

\* the ids rq gives to the jobs
JobIds == {"job1", "job2"}

\* the values 100 * posts_count // total_posts can take, with 0 and 100
Progress ==
    {0, 100} \cup {(100 * c) \div t : c \in 1..MaxJobPosts, t \in 1..MaxJobPosts}

\* {'task_id': job.get_id(), 'progress': progress}
TaskPayloads == {[task_id |-> j, progress |-> p] : j \in JobIds, p \in Progress}

\* the values user.unread_message_count() can take
CountPayloads == {[int |-> n] : n \in 0..MaxMsgClock}

\* json.dumps(data)
json_dumps(data) ==
    IF "int" \in DOMAIN data
    THEN ToString(data.int)
    ELSE "{\"task_id\": \"" \o data.task_id \o "\", \"progress\": "
             \o ToString(data.progress) \o "}"

\* json.loads(text): the value whose JSON text this is
json_loads(text) ==
    CHOOSE data \in JsonValues \cup TaskPayloads \cup CountPayloads :
        json_dumps(data) = text

\* Notification.get_data
get_data(n) == json_loads(n.payload_json)

\* the rows self.notifications.delete().where(Notification.name == name) matches
Matching(self, name) ==
    {n \in notifications : n.user_id = self /\ n.name = name}

\* a plausible slip: nothing is deleted, the new row is appended
DeletedNone(self, name) == {}

\* the rows the DELETE of add_notification removes
DeletedBy(self, name) == Matching(self, name)

\* Notification(name=name, payload_json=json.dumps(data), user=self), as
\* inserted: id from the autoincrement, timestamp from the column default
Notification(id, self, name, data, t) ==
    [id |-> id, name |-> name, user_id |-> self, timestamp |-> t,
     payload_json |-> json_dumps(data)]

NoCall == [user |-> NoUser, name |-> "", data |-> [int |-> 0], replaced |-> FALSE]

NUsers == {"alice", "bob"}

NotifInit ==
    /\ notifications = {}
    /\ nextNid = 1
    /\ ntime = 1
    /\ nlast = NoCall

\* a request or job that calls self.add_notification(name, data) and commits,
\* with no other transaction running meanwhile; time() returns t
AddNotification(self, name, data, t) ==
    /\ nextNid <= MaxNotifs
    /\ t <= MaxNTime
    /\ notifications' = (notifications \ DeletedBy(self, name))
                            \cup {Notification(nextNid, self, name, data, t)}
    /\ nextNid' = nextNid + 1
    /\ ntime' = t
    /\ nlast' = [user |-> self, name |-> name, data |-> data,
                 replaced |-> Matching(self, name) # {}]
    /\ UNCHANGED <<graphVars, timelineVars, concVars, searchVars, laterVars>>

\* request.args.get('since', 0.0, type=float)
Args == {[has |-> FALSE, since |-> 0]} \cup
        {[has |-> TRUE, since |-> t] : t \in 0..(MaxNTime + 1)}
args_get_since(args) == IF args.has THEN args.since ELSE 0

\* a plausible slip: >= instead of >
NotAfter(n, since) == n.timestamp >= since

\* Notification.timestamp > since
After(n, since) == n.timestamp > since

\* a plausible slip: the select is not restricted to current_user
SelectSinceAnyUser(cur, since) ==
    {n \in notifications : After(n, since)}

\* current_user.notifications.select().where(Notification.timestamp > since)
SelectSince(cur, since) ==
    {n \in notifications : n.user_id = cur /\ After(n, since)}

\* the orders ORDER BY timestamp ASC can return the rows in (ties unordered)
RECURSIVE OrderByTimestampAsc(_)
OrderByTimestampAsc(rows) ==
    IF rows = {} THEN {<<>>}
    ELSE UNION {{<<r>> \o s : s \in OrderByTimestampAsc(rows \ {r})}
                : r \in {x \in rows : \A y \in rows : x.timestamp <= y.timestamp}}

\* the JSON object the route returns for a row
Item(n) == [name |-> n.name, data |-> get_data(n), timestamp |-> n.timestamp]

\* GET /notifications by cur: the lists the route can return
notifications_route(cur, args) ==
    {[i \in 1..Len(rs) |-> Item(rs[i])] :
        rs \in OrderByTimestampAsc(SelectSince(cur, args_get_since(args)))}

(***************************************************************************)
(* add_notification in concurrent transactions, and a polling client       *)
(***************************************************************************)
\* two processes that share the store, each a request handler (send_message,
\* view_message) or a worker job (_set_task_progress)
Procs == {"p1", "p2"}

\* the account whose client polls
Client == "alice"

\* the (name, data) the callers of add_notification pass: send_message (the
\* unread count), view_message (0) and _set_task_progress (task id and progress)
Calls ==
    {<<"unread_message_count", [int |-> 1]>>,
     <<"unread_message_count", [int |-> 0]>>,
     <<"task_progress", [task_id |-> "job1", progress |-> 100]>>}

Idle == [pc |-> "idle", user |-> NoUser, name |-> "", data |-> [int |-> 0],
         deleted |-> {}, row |-> {}]

ConcInit ==
    /\ txn = [p \in Procs |-> Idle]
    /\ cursor = 0
    /\ received = {}
    /\ redelivered = FALSE

\* db.session.execute(self.notifications.delete().where(...)): the DELETE runs
\* in the process's transaction; it removes the committed rows that match and
\* waits while another open transaction has deleted one of them (row lock).
\* A store that serializes writers (SQLite) lets it start only when no other
\* transaction is writing.
DeleteStep(p, self, name, data) ==
    /\ txn[p].pc = "idle"
    /\ nextNid <= MaxNotifs
    /\ serialWrites => \A q \in Procs \ {p} : txn[q].pc = "idle"
    /\ \A q \in Procs \ {p} :
          txn[q].deleted \cap {n.id : n \in DeletedBy(self, name)} = {}
    /\ txn' = [txn EXCEPT ![p] =
                  [pc |-> "deleted", user |-> self, name |-> name, data |-> data,
                   deleted |-> {n.id : n \in DeletedBy(self, name)}, row |-> {}]]
    /\ UNCHANGED <<notifVars, serialWrites, cursor, received, redelivered,
                   graphVars, timelineVars, searchVars, laterVars>>

\* db.session.add(n), flushed by commit: the INSERT runs, the id and the
\* timestamp default (time()) are taken now, the row is not yet visible
InsertStep(p, t) ==
    /\ txn[p].pc = "deleted"
    /\ t <= MaxNTime
    /\ txn' = [txn EXCEPT ![p].pc = "inserted",
                          ![p].row = {Notification(nextNid, txn[p].user, txn[p].name,
                                                   txn[p].data, t)}]
    /\ nextNid' = nextNid + 1
    /\ ntime' = t
    /\ UNCHANGED <<notifications, nlast, serialWrites, cursor, received, redelivered,
                   graphVars, timelineVars, searchVars, laterVars>>

\* db.session.commit(): the transaction's deletes and its insert become visible
CommitStep(p) ==
    /\ txn[p].pc = "inserted"
    /\ notifications' = {n \in notifications : n.id \notin txn[p].deleted}
                            \cup txn[p].row
    /\ txn' = [txn EXCEPT ![p] = Idle]
    /\ UNCHANGED <<nextNid, ntime, nlast, serialWrites, cursor, received, redelivered,
                   graphVars, timelineVars, searchVars, laterVars>>

MaxTimestamp(rows) == CHOOSE t \in {n.timestamp : n \in rows} :
                          \A n \in rows : n.timestamp <= t

\* the client calls GET /notifications?since=<largest timestamp received> (no
\* parameter on its first call) and moves its cursor to the largest timestamp
\* of the response
Poll ==
    LET rows == SelectSince(Client, args_get_since([has |-> cursor # 0, since |-> cursor]))
    IN  /\ rows # {}
        /\ cursor' = MaxTimestamp(rows)
        /\ redelivered' = (redelivered \/ \E n \in rows : <<n.id, n.timestamp>> \in received)
        /\ received' = received \cup {<<n.id, n.timestamp>> : n \in rows}
        /\ UNCHANGED <<txn, serialWrites, notifVars, graphVars, timelineVars, searchVars, laterVars>>

(***************************************************************************)
(* Search index mirror: SearchableMixin.before_commit / after_commit,      *)
(* add_to_index / remove_from_index, over one SQLAlchemy session           *)
(***************************************************************************)
\* the objects a session can hold: two posts and a message, by table and primary key
Keys == {[cls |-> "post", id |-> 1], [cls |-> "post", id |-> 2],
         [cls |-> "message", id |-> 1]}
Bodies == {"hello", "bye"}
BodiesOf(k) == IF k.cls = "post" THEN Bodies ELSE {"hello"}

Row(k, body) == [cls |-> k.cls, id |-> k.id, body |-> body]
KeyOf(r) == [cls |-> r.cls, id |-> r.id]
KeysOf(rows) == {KeyOf(r) : r \in rows}
RowOf(rows, k) == CHOOSE r \in rows : KeyOf(r) = k

\* isinstance(obj, SearchableMixin): Post is the only searchable model
IsSearchable(obj) == obj.cls = "post"

SearchInit ==
    /\ store = {}
    /\ view = {}
    /\ session_new = {}
    /\ session_dirty = {}
    /\ session_deleted = {}
    /\ index = {}
    /\ hookRaised = FALSE
    /\ sop = "none"

\* db.session.add(obj) of a new object
SessionAdd(k, body) ==
    /\ k \notin KeysOf(view) \cup KeysOf(session_new)
    /\ session_new' = session_new \cup {Row(k, body)}
    /\ sop' = "add"
    /\ UNCHANGED <<store, view, session_dirty, session_deleted, index, hookRaised>>
    /\ UNCHANGED <<graphVars, timelineVars, notifVars, concVars, laterVars>>

\* an attribute of a persistent object is assigned a new value
SessionModify(k, body) ==
    /\ k \in KeysOf(view)
    /\ k \notin KeysOf(session_deleted)
    /\ RowOf(view, k).body # body
    /\ session_dirty' = {r \in session_dirty : KeyOf(r) # k} \cup {Row(k, body)}
    /\ sop' = "modify"
    /\ UNCHANGED <<store, view, session_new, session_deleted, index, hookRaised>>
    /\ UNCHANGED <<graphVars, timelineVars, notifVars, concVars, laterVars>>

\* db.session.delete(obj) of a persistent object; session.dirty leaves out
\* the objects that are marked deleted
SessionDelete(k) ==
    /\ k \in KeysOf(view)
    /\ k \notin KeysOf(session_deleted)
    /\ session_deleted' = session_deleted \cup {RowOf(view, k)}
    /\ session_dirty' = {r \in session_dirty : KeyOf(r) # k}
    /\ sop' = "delete"
    /\ UNCHANGED <<store, view, session_new, index, hookRaised>>
    /\ UNCHANGED <<graphVars, timelineVars, notifVars, concVars, laterVars>>

\* the rows of the transaction once the pending changes are written
Flushed ==
    {r \in view : KeyOf(r) \notin KeysOf(session_deleted) \cup KeysOf(session_dirty)}
        \cup session_dirty \cup session_new

\* session.flush(), explicit or the autoflush before a query: the pending
\* changes go to the open transaction and session.new, session.dirty and
\* session.deleted become empty
SessionFlush ==
    /\ session_new \cup session_dirty \cup session_deleted # {}
    /\ view' = Flushed
    /\ session_new' = {}
    /\ session_dirty' = {}
    /\ session_deleted' = {}
    /\ sop' = "flush"
    /\ UNCHANGED <<store, index, hookRaised>>
    /\ UNCHANGED <<graphVars, timelineVars, notifVars, concVars, laterVars>>

\* db.session.rollback()
SessionRollback ==
    /\ view' = store
    /\ session_new' = {}
    /\ session_dirty' = {}
    /\ session_deleted' = {}
    /\ sop' = "rollback"
    /\ UNCHANGED <<store, index, hookRaised>>
    /\ UNCHANGED <<graphVars, timelineVars, notifVars, concVars, laterVars>>

\* SearchableMixin.before_commit: session._changes
before_commit ==
    [add |-> session_new, update |-> session_dirty, delete |-> session_deleted]

\* the Elasticsearch client raises ConnectionError when its server is unreachable
Unavailable == elasticsearch = "down"

\* a plausible slip: the document is appended without replacing the one of the same id
add_to_index_append(idx, obj, rows) ==
    IF elasticsearch = "none" THEN idx
    ELSE idx \cup {RowOf(rows, KeyOf(obj))}

\* add_to_index(index, model): nothing without a configured engine; otherwise
\* the document of model.id is replaced by one holding the model's searchable
\* fields, read from the committed row
add_to_index(idx, obj, rows) ==
    IF elasticsearch = "none" THEN idx
    ELSE {d \in idx : KeyOf(d) # KeyOf(obj)} \cup {RowOf(rows, KeyOf(obj))}

\* remove_from_index(index, model): nothing without a configured engine
remove_from_index(idx, obj) ==
    IF elasticsearch = "none" THEN idx
    ELSE {d \in idx : KeyOf(d) # KeyOf(obj)}

\* the first two loops of after_commit: every searchable object of 'add' and
\* of 'update' is indexed; a call to an unreachable server raises, which ends
\* the hook
RECURSIVE IndexAll(_, _, _)
IndexAll(idx, objs, rows) ==
    IF objs = {} THEN [index |-> idx, raised |-> FALSE]
    ELSE LET obj == CHOOSE o \in objs : TRUE
         IN  IF ~IsSearchable(obj) THEN IndexAll(idx, objs \ {obj}, rows)
             ELSE IF Unavailable THEN [index |-> idx, raised |-> TRUE]
             ELSE IndexAll(add_to_index(idx, obj, rows), objs \ {obj}, rows)

\* the third loop of after_commit, over 'delete' in one of its orders:
\* elasticsearch.delete of a document that does not exist raises NotFoundError,
\* which ends the hook
RECURSIVE RemoveAll(_, _)
RemoveAll(idx, objs) ==
    IF objs = {} THEN {[index |-> idx, raised |-> FALSE]}
    ELSE UNION {
        IF ~IsSearchable(obj) THEN RemoveAll(idx, objs \ {obj})
        ELSE IF elasticsearch = "none" THEN RemoveAll(idx, objs \ {obj})
        ELSE IF Unavailable \/ KeyOf(obj) \notin KeysOf(idx)
             THEN {[index |-> idx, raised |-> TRUE]}
        ELSE RemoveAll(remove_from_index(idx, obj), objs \ {obj})
        : obj \in objs}

\* SearchableMixin.after_commit: the outcomes of replaying session._changes
after_commit(idx, changes, rows) ==
    LET indexed == IndexAll(idx, changes.add \cup changes.update, rows)
    IN  IF indexed.raised THEN {indexed}
        ELSE RemoveAll(indexed.index, changes.delete)

\* a plausible slip: the replay is hooked to an event that also fires when the
\* commit fails
HookFiresAlways(ok) == TRUE

\* db.event.listen(db.session, 'after_commit', ...): fires after a commit that succeeded
HookFires(ok) == ok

\* db.session.commit(): before_commit takes the snapshot, the pending changes
\* are flushed and the transaction commits (ok) or fails and is rolled back
\* (~ok); after_commit replays the snapshot after a commit that succeeded
SessionCommit(ok) ==
    LET changes == before_commit
        rows == IF ok THEN Flushed ELSE store
    IN  /\ store' = rows
        /\ view' = rows
        /\ session_new' = {}
        /\ session_dirty' = {}
        /\ session_deleted' = {}
        /\ sop' = IF ok THEN "commit" ELSE "commit_failed"
        /\ IF HookFires(ok)
           THEN \E out \in after_commit(index, changes, Flushed) :
                    /\ index' = out.index
                    /\ hookRaised' = out.raised
           ELSE /\ index' = index
                /\ hookRaised' = FALSE
        /\ UNCHANGED <<graphVars, timelineVars, notifVars, concVars, laterVars>>

(***************************************************************************)
(* The search engine seen through app/search.py: add_to_index,            *)
(* remove_from_index and query_index called on their own, and             *)
(* SearchableMixin.search on top of query_index                           *)
(***************************************************************************)
MaxPage == 3
PerPages == {1, 2}

\* the posts handed to add_to_index and the texts of their body
DocIds == {1, 2, 3}
DocKeys == {[cls |-> "post", id |-> i] : i \in DocIds}
Texts == {"hello", "bye", "hello bye"}
Terms == {"hello", "bye", "nothing"}

\* the engine's analyzer: the words of a text
Tokens(text) ==
    CASE text = "hello" -> {"hello"}
      [] text = "bye" -> {"bye"}
      [] text = "hello bye" -> {"hello", "bye"}
      [] OTHER -> {text}

\* the engine keeps the id of a document as a string (hit['_id']) ...
doc_id(n) == ToString(n)
\* ... which query_index reads back with int()
int_of(text) == CHOOSE n \in 0..9 : ToString(n) = text

\* multi_match of the query over all fields of the documents of one index
Hits(idx, name, query) ==
    {d \in idx : d.cls = name /\ Tokens(query) \cap Tokens(d.body) # {}}

\* the orders in which the engine may rank a set of hits
RECURSIVE Rankings(_)
Rankings(hits) ==
    IF hits = {} THEN {<<>>}
    ELSE UNION {{<<d>> \o r : r \in Rankings(hits \ {d})} : d \in hits}

Min(a, b) == IF a <= b THEN a ELSE b

\* a plausible slip: the first page starts after per_page hits
from_page_off(page, per_page) == page * per_page

\* from_=(page - 1) * per_page
from_page(page, per_page) == (page - 1) * per_page

\* ids of query_index for one ranking: the hits from_ .. from_ + size - 1
page_ids(ranked, page, per_page) ==
    LET from == from_page(page, per_page)
        hit == SubSeq(ranked, from + 1, Min(from + per_page, Len(ranked)))
    IN  [i \in 1..Len(hit) |-> int_of(doc_id(hit[i].id))]

\* query_index(index, query, page, per_page): ([], 0) without a configured
\* engine, an exception from an unreachable one, otherwise the ids of the page
\* and the number of hits
query_index(idx, name, query, page, per_page) ==
    IF elasticsearch = "none" THEN {[ids |-> <<>>, total |-> 0, raised |-> FALSE]}
    ELSE IF Unavailable THEN {[ids |-> <<>>, total |-> 0, raised |-> TRUE]}
    ELSE {[ids |-> page_ids(ranked, page, per_page),
           total |-> Cardinality(Hits(idx, name, query)),
           raised |-> FALSE] : ranked \in Rankings(Hits(idx, name, query))}

\* a plausible slip: the rows are ordered by their id, the store's natural order
case_position_id(ids, id) == id

\* db.case(*when, value=cls.id) with when = [(ids[i], i)]: the position of
\* the first WHEN that equals the id
case_position(ids, id) ==
    (CHOOSE i \in 1..Len(ids) :
        ids[i] = id /\ \A j \in 1..(i - 1) : ids[j] # id) - 1

\* order_by(...): the selected rows by ascending value of the CASE
RECURSIVE OrderByCase(_, _)
OrderByCase(selected, ids) ==
    IF selected = {} THEN <<>>
    ELSE LET first == CHOOSE r \in selected : \A o \in selected :
                          case_position(ids, r.id) <= case_position(ids, o.id)
         IN  <<first>> \o OrderByCase(selected \ {first}, ids)

\* sa.select(cls).where(cls.id.in_(ids)).order_by(db.case(*when, value=cls.id))
RowsInOrder(rows, name, ids) ==
    OrderByCase({r \in rows : r.cls = name /\ r.id \in {ids[i] : i \in 1..Len(ids)}},
                ids)

\* SearchableMixin.search after query_index has returned res: ([], 0) for a
\* total of 0, otherwise the rows of the ids as the session reads them (the
\* query flushes the pending changes first) with the engine's total; for an
\* empty page of a non-empty result the CASE has no WHEN, and the query may
\* be refused
hydrate(name, res) ==
    IF res.raised THEN {[rows |-> <<>>, total |-> 0, raised |-> TRUE]}
    ELSE IF res.total = 0 THEN {[rows |-> <<>>, total |-> 0, raised |-> FALSE]}
    ELSE IF res.ids = <<>>
    THEN {[rows |-> <<>>, total |-> res.total, raised |-> FALSE],
          [rows |-> <<>>, total |-> 0, raised |-> TRUE]}
    ELSE {[rows |-> RowsInOrder(Flushed, name, res.ids), total |-> res.total,
           raised |-> FALSE]}

\* SearchableMixin.search(expression, page, per_page)
search(name, expression, page, per_page) ==
    UNION {hydrate(name, res) :
              res \in query_index(index, name, expression, page, per_page)}

NoSearchCall == [op |-> "none"]

EngineInit ==
    /\ elasticsearch = "up"
    /\ elast = NoSearchCall

\* add_to_index(index, model) called with a post
AddToIndex(k, text) ==
    LET obj == Row(k, text)
    IN  /\ index' = IF Unavailable THEN index ELSE add_to_index(index, obj, {obj})
        /\ elast' = [op |-> "add", key |-> k, body |-> text,
                     engine |-> elasticsearch, raised |-> Unavailable]
        /\ UNCHANGED <<elasticsearch, sessionVars, hookRaised, sop>>
        /\ UNCHANGED <<graphVars, timelineVars, notifVars, concVars, otherVars>>

\* remove_from_index(index, model) called with a post
RemoveFromIndex(k) ==
    LET missing == elasticsearch = "up" /\ k \notin KeysOf(index)
    IN  /\ index' = IF Unavailable THEN index
                    ELSE remove_from_index(index, [cls |-> k.cls, id |-> k.id])
        /\ elast' = [op |-> "remove", key |-> k, engine |-> elasticsearch,
                     raised |-> Unavailable \/ missing]
        /\ UNCHANGED <<elasticsearch, sessionVars, hookRaised, sop>>
        /\ UNCHANGED <<graphVars, timelineVars, notifVars, concVars, otherVars>>

\* query_index(index, query, page, per_page) called on the posts
QueryIndex(query, page, per_page) ==
    /\ \E res \in query_index(index, "post", query, page, per_page) :
          elast' = [op |-> "query", query |-> query, page |-> page,
                    per_page |-> per_page, engine |-> elasticsearch, res |-> res]
    /\ UNCHANGED <<elasticsearch, index, sessionVars, hookRaised, sop>>
    /\ UNCHANGED <<graphVars, timelineVars, notifVars, concVars, otherVars>>

\* ELASTICSEARCH_URL: the application runs without the variable, with it and
\* a reachable server, or with it and a server that is down; the documents
\* live in the server
EngineChange(e) ==
    /\ e # elasticsearch
    /\ elasticsearch' = e
    /\ UNCHANGED <<elast, searchVars>>
    /\ UNCHANGED <<graphVars, timelineVars, notifVars, concVars, otherVars>>

(***************************************************************************)
(* Background tasks: User.launch_task, the Task table, and the rq worker   *)
(* running export_posts with _set_task_progress (app/tasks.py)             *)
(***************************************************************************)
NoJob == [pc |-> "none", user |-> NoUser, meta |-> -1, total |-> 0, todo |-> 0,
          count |-> 0, exc |-> "", pend |-> FALSE]
NoReport == [job |-> "none", progress |-> 0, ok |-> FALSE, calls |-> 0]

TaskInit ==
    /\ tasks = {}
    /\ added = {}
    /\ job = [j \in JobIds |-> NoJob]
    /\ uposts = [u \in NUsers |-> 0]
    /\ tlast = NoReport

Task(id, self) == [id |-> id, user_id |-> self, complete |-> FALSE]

\* a plausible slip: the tasks of every user
get_tasks_in_progress_all(self) == {t \in tasks : ~t.complete}

\* User.get_tasks_in_progress: self.tasks.select().where(Task.complete == False)
get_tasks_in_progress(self) == {t \in tasks : t.user_id = self /\ ~t.complete}

\* User.launch_task: the job is enqueued, then the Task object is added to the
\* session of the request, which commits later
LaunchTask(self, j) ==
    /\ job[j].pc = "none"
    /\ job' = [job EXCEPT ![j] = [NoJob EXCEPT !.pc = "queued", !.user = self]]
    /\ added' = added \cup {Task(j, self)}
    /\ UNCHANGED <<tasks, uposts, tlast>>
    /\ UNCHANGED <<graphVars, timelineVars, notifVars, concVars, searchVars, nonTaskVars>>

\* the db.session.commit() of the request that called launch_task
CommitTask(j) ==
    /\ \E t \in added : t.id = j
    /\ tasks' = tasks \cup {t \in added : t.id = j}
    /\ added' = {t \in added : t.id # j}
    /\ UNCHANGED <<job, uposts, tlast>>
    /\ UNCHANGED <<graphVars, timelineVars, notifVars, concVars, searchVars, nonTaskVars>>

\* a post of the user is committed by another request
PostCommitted(u) ==
    /\ uposts[u] < MaxJobPosts
    /\ uposts' = [uposts EXCEPT ![u] = @ + 1]
    /\ UNCHANGED <<tasks, added, job, tlast>>
    /\ UNCHANGED <<graphVars, timelineVars, notifVars, concVars, searchVars, nonTaskVars>>

\* the one worker process runs one job at a time
WorkerFree == \A j \in JobIds : job[j].pc \in {"none", "queued", "returned", "escaped"}

\* the worker takes the job from the queue and calls export_posts(user_id)
StartJob(j) ==
    /\ job[j].pc = "queued"
    /\ WorkerFree
    /\ job' = [job EXCEPT ![j].pc = "load"]
    /\ UNCHANGED <<tasks, added, uposts, tlast>>
    /\ UNCHANGED <<graphVars, timelineVars, notifVars, concVars, searchVars, nonTaskVars>>

\* db.session.get(Task, job.get_id()) finds the committed row of the job;
\* without one it returns None and task.user raises AttributeError
TaskFound(j) == \E t \in tasks : t.id = j

\* a plausible slip: the payload keeps the progress the job started with
task_progress_started(j, progress) == [task_id |-> j, progress |-> 0]

\* {'task_id': job.get_id(), 'progress': progress}
task_progress(j, progress) == [task_id |-> j, progress |-> progress]

\* a plausible slip: > instead of >=
completes_above(progress) == progress > 100

\* if progress >= 100: task.complete = True
completes(progress) == progress >= 100

\* the database part of _set_task_progress(progress) in job j: the owner's
\* 'task_progress' notification is replaced, the Task is completed at 100 and
\* the transaction commits; nothing is written when the Task row is missing
SetTaskProgress(j, progress, t) ==
    /\ tlast' = [job |-> j, progress |-> progress, ok |-> TaskFound(j),
                 calls |-> 1 - tlast.calls]
    /\ IF TaskFound(j)
       THEN LET task == CHOOSE r \in tasks : r.id = j
            IN  /\ nextNid <= MaxTaskNotifs
                /\ notifications' =
                       (notifications \ DeletedBy(task.user_id, "task_progress"))
                           \cup {Notification(nextNid, task.user_id, "task_progress",
                                              task_progress(j, progress), t)}
                /\ nextNid' = nextNid + 1
                /\ ntime' = t
                /\ tasks' = IF completes(progress)
                            THEN (tasks \ {task}) \cup {[task EXCEPT !.complete = TRUE]}
                            ELSE tasks
       ELSE UNCHANGED <<notifications, nextNid, ntime, tasks>>

\* _set_task_progress(progress) called where get_current_job() is None
SetTaskProgressOutside(progress) ==
    /\ tlast' = [job |-> "none", progress |-> progress, ok |-> TRUE,
                 calls |-> 1 - tlast.calls]
    /\ UNCHANGED <<tasks, added, job, uposts>>
    /\ UNCHANGED <<graphVars, timelineVars, notifVars, concVars, searchVars, nonTaskVars>>

TaskFrame ==
    /\ UNCHANGED <<added, uposts, nlast>>
    /\ UNCHANGED <<graphVars, timelineVars, concVars, searchVars, nonTaskVars>>

\* the handler of an exception raised in the try block; exc keeps the place
\* of the raise
Except(j) == [job EXCEPT ![j].pc = "except", ![j].exc = job[j].pc]

\* line 46: user = db.session.get(User, user_id), which may raise
LoadUser(j, fault) ==
    /\ job[j].pc = "load"
    /\ job' = IF fault THEN Except(j) ELSE [job EXCEPT ![j].pc = "report0"]
    /\ UNCHANGED <<tasks, added, uposts, tlast>>
    /\ UNCHANGED <<graphVars, timelineVars, notifVars, concVars, searchVars, nonTaskVars>>

\* line 47: _set_task_progress(0)
ReportStart(j, t) ==
    /\ job[j].pc = "report0"
    /\ SetTaskProgress(j, 0, t)
    /\ job' = IF TaskFound(j) THEN [job EXCEPT ![j].pc = "read", ![j].meta = 0]
              ELSE [job EXCEPT ![j].pc = "except", ![j].exc = "report", ![j].meta = 0]
    /\ TaskFrame

\* lines 48-51: total_posts is counted, then the select of the loop runs;
\* either query may raise, and a post may be committed between the two
ReadPosts(j, fault) ==
    /\ job[j].pc \in {"read", "select"}
    /\ job' = IF fault THEN Except(j)
              ELSE IF job[j].pc = "read"
              THEN [job EXCEPT ![j].pc = "select", ![j].total = uposts[job[j].user],
                               ![j].count = 0]
              ELSE [job EXCEPT ![j].pc = "loop", ![j].todo = uposts[job[j].user]]
    /\ UNCHANGED <<tasks, added, uposts, tlast>>
    /\ UNCHANGED <<graphVars, timelineVars, notifVars, concVars, searchVars, nonTaskVars>>

\* lines 52-55, one iteration: the post is read, which may raise, then
\* posts_count += 1 and _set_task_progress(100 * posts_count // total_posts),
\* where the division raises ZeroDivisionError when total_posts is 0
LoopStep(j, t, fault) ==
    /\ job[j].pc = "loop"
    /\ job[j].todo > 0
    /\ LET posts_count == job[j].count + 1
           next == [job EXCEPT ![j].count = posts_count, ![j].todo = @ - 1]
       IN  IF fault
           THEN /\ job' = Except(j)
                /\ UNCHANGED <<tasks, notifications, nextNid, ntime, tlast>>
           ELSE IF job[j].total = 0
           THEN /\ job' = [next EXCEPT ![j].pc = "except", ![j].exc = "division"]
                /\ UNCHANGED <<tasks, notifications, nextNid, ntime, tlast>>
           ELSE LET progress == (100 * posts_count) \div job[j].total
                IN  /\ SetTaskProgress(j, progress, t)
                    /\ job' = IF TaskFound(j)
                              THEN [next EXCEPT ![j].meta = progress]
                              ELSE [next EXCEPT ![j].meta = progress,
                                                ![j].pc = "except", ![j].exc = "report"]
    /\ TaskFrame

\* lines 56-65: send_email(..., sync=True) after the last iteration, which
\* raises when the mail server refuses
SendEmail(j, fault) ==
    /\ job[j].pc = "loop"
    /\ job[j].todo = 0
    /\ job' = IF fault THEN [job EXCEPT ![j].pc = "except", ![j].exc = "mail"] ELSE [job EXCEPT ![j].pc = "finally"]
    /\ UNCHANGED <<tasks, added, uposts, tlast>>
    /\ UNCHANGED <<graphVars, timelineVars, notifVars, concVars, searchVars, nonTaskVars>>

\* lines 66-69: except Exception: _set_task_progress(100), then the error is
\* logged; an exception raised by the report leaves the handler unhandled
ReportExcept(j, t) ==
    /\ job[j].pc = "except"
    /\ SetTaskProgress(j, 100, t)
    /\ job' = [job EXCEPT ![j].pc = "finally", ![j].meta = 100,
                          ![j].pend = ~TaskFound(j)]
    /\ TaskFrame

\* lines 70-72: finally: _set_task_progress(100); export_posts returns, or
\* ends with the exception of this report or with the one left unhandled
ReportFinally(j, t) ==
    /\ job[j].pc = "finally"
    /\ SetTaskProgress(j, 100, t)
    /\ job' = [job EXCEPT ![j] =
                  [NoJob EXCEPT !.pc = IF TaskFound(j) /\ ~job[j].pend
                                       THEN "returned" ELSE "escaped",
                                !.user = job[j].user, !.meta = 100,
                                !.exc = job[j].exc]]
    /\ TaskFrame

(***************************************************************************)
(* API tokens: User.get_token, User.revoke_token, User.check_token         *)
(***************************************************************************)
\* the strings secrets.token_hex(16) may return
TokenStrings == {"a1", "b2"}
NoToken == ""
NoTime == -1

\* get_token(expires_in=3600), now + timedelta(seconds=60), now - timedelta(seconds=1)
expires_in == 3600
ReuseMargin == 60
RevokeShift == 1

\* the steps by which the clock advances between requests
ClockSteps == {1, 3539, 3600}

NoTokenCall == [op |-> "none", user |-> NoUser]

TokenInit ==
    /\ token = [u \in NUsers |-> NoToken]
    /\ token_expiration = [u \in NUsers |-> NoTime]
    /\ utcnow = 0
    /\ ticks = 0
    /\ issued = [t \in TokenStrings |-> {}]
    /\ revoked = {}
    /\ klast = NoTokenCall

TokenFrame == UNCHANGED <<graphVars, timelineVars, notifVars, concVars, searchVars,
                          nonTokenVars>>

\* time passes
AdvanceClock(d) ==
    /\ ticks < MaxTicks
    /\ utcnow' = utcnow + d
    /\ ticks' = ticks + 1
    /\ UNCHANGED <<token, token_expiration, issued, revoked, klast>>
    /\ TokenFrame

\* a plausible slip: the 60 seconds of margin are left out
ReusableUntilExpiry(self) ==
    token[self] # NoToken /\ token_expiration[self] > utcnow

\* self.token and self.token_expiration > now + timedelta(seconds=60)
Reusable(self) ==
    token[self] # NoToken /\ token_expiration[self] > utcnow + ReuseMargin

\* unique=True on User.token: a commit that gives two rows the same token fails
TokenTaken(self, t) == \E u \in NUsers \ {self} : token[u] = t

\* a request that calls self.get_token() and commits; secrets.token_hex(16)
\* returns fresh
GetToken(self, fresh) ==
    /\ IF Reusable(self)
       THEN /\ klast' = [op |-> "get", user |-> self]
            /\ revoked' = revoked \ {self}
            /\ UNCHANGED <<token, token_expiration, issued>>
       ELSE IF TokenTaken(self, fresh)
       THEN /\ klast' = [op |-> "get_failed", user |-> self]
            /\ UNCHANGED <<token, token_expiration, issued, revoked>>
       ELSE /\ token' = [token EXCEPT ![self] = fresh]
            /\ token_expiration' = [token_expiration EXCEPT ![self] = utcnow + expires_in]
            /\ issued' = [issued EXCEPT ![fresh] = @ \cup {self}]
            /\ revoked' = revoked \ {self}
            /\ klast' = [op |-> "get", user |-> self]
    /\ UNCHANGED <<utcnow, ticks>>
    /\ TokenFrame

\* a plausible slip: the expiration is set to now
revoked_expiration_now(at) == at

\* datetime.now(timezone.utc) - timedelta(seconds=1)
revoked_expiration(at) == at - RevokeShift

\* a request that calls self.revoke_token() and commits
RevokeToken(self) ==
    /\ token_expiration' = [token_expiration EXCEPT ![self] = revoked_expiration(utcnow)]
    /\ revoked' = revoked \cup {self}
    /\ klast' = [op |-> "revoke", user |-> self]
    /\ UNCHANGED <<token, issued, utcnow, ticks>>
    /\ TokenFrame

\* User.check_token(token): the user whose token it is, unless the token has
\* expired; NoUser stands for None
check_token(t) ==
    LET found == {u \in NUsers : token[u] = t}
    IN  IF found = {} THEN NoUser
        ELSE LET user == CHOOSE u \in found : TRUE
             IN  IF token_expiration[user] < utcnow THEN NoUser ELSE user

\* a request authenticated by check_token
CheckToken(t) ==
    /\ klast' = [op |-> "check", user |-> check_token(t)]
    /\ klast' # klast
    /\ UNCHANGED <<token, token_expiration, utcnow, ticks, issued, revoked>>
    /\ TokenFrame

(***************************************************************************)
(* Accounts: RegistrationForm and EditProfileForm validation, and the      *)
(* commit of the request that follows it                                   *)
(***************************************************************************)
LoginNames == {"ann", "ben"}
Emails == {"ann@example.com", "ben@example.com"}

NoForm == [pc |-> "idle"]

AccountInit ==
    /\ accounts = {}
    /\ nextUid = 1
    /\ req = [p \in Procs |-> NoForm]
    /\ outcome = [p \in Procs |-> "none"]

AccountFrame == UNCHANGED <<graphVars, timelineVars, notifVars, concVars, searchVars,
                            nonAccountVars>>

\* db.session.scalar(sa.select(User).where(User.username == username.data)) is not None
UsernameExists(name) == \E u \in accounts : u.username = name
\* db.session.scalar(sa.select(User).where(User.email == email.data)) is not None
EmailExists(email) == \E u \in accounts : u.email = email

\* RegistrationForm.validate_username and validate_email
RegistrationValid(name, email) == ~UsernameExists(name) /\ ~EmailExists(email)

\* EditProfileForm.validate_username
EditValid(original_username, name) ==
    name = original_username \/ ~UsernameExists(name)

\* a registration request up to form.validate_on_submit(): a ValidationError
\* makes the form invalid and the request ends without a write
RegisterValidate(p, name, email) ==
    /\ req[p] = NoForm
    /\ IF RegistrationValid(name, email)
       THEN /\ req' = [req EXCEPT ![p] = [pc |-> "valid", kind |-> "register", id |-> 0,
                                          username |-> name, email |-> email]]
            /\ outcome' = [outcome EXCEPT ![p] = "none"]
       ELSE /\ req' = req
            /\ outcome' = [outcome EXCEPT ![p] = "invalid"]
    /\ UNCHANGED <<accounts, nextUid>>
    /\ AccountFrame

\* edit_profile up to form.validate_on_submit(), for the logged-in account
EditValidate(p, cur, name) ==
    /\ req[p] = NoForm
    /\ cur \in accounts
    /\ IF EditValid(cur.username, name)
       THEN /\ req' = [req EXCEPT ![p] = [pc |-> "valid", kind |-> "edit", id |-> cur.id,
                                          username |-> name, email |-> cur.email]]
            /\ outcome' = [outcome EXCEPT ![p] = "none"]
       ELSE /\ req' = req
            /\ outcome' = [outcome EXCEPT ![p] = "invalid"]
    /\ UNCHANGED <<accounts, nextUid>>
    /\ AccountFrame

\* unique=True on User.username and User.email: the INSERT or UPDATE fails
\* with IntegrityError when another row holds the value
Conflicts(id, name, email) ==
    \E u \in accounts : u.id # id /\ (u.username = name \/ u.email = email)

\* the rest of the request: the new User is added, or current_user.username
\* assigned, and db.session.commit() runs; an IntegrityError is not caught
CommitForm(p) ==
    /\ req[p] # NoForm
    /\ LET f == req[p]
           id == IF f.kind = "register" THEN nextUid ELSE f.id
       IN  IF Conflicts(id, f.username, f.email)
           THEN /\ outcome' = [outcome EXCEPT ![p] = "exception"]
                /\ UNCHANGED <<accounts, nextUid>>
           ELSE /\ f.kind = "register" => nextUid <= MaxAccounts
                /\ outcome' = [outcome EXCEPT ![p] = "saved"]
                /\ accounts' = {u \in accounts : u.id # id} \cup
                       {[id |-> id, username |-> f.username, email |-> f.email]}
                /\ nextUid' = IF f.kind = "register" THEN nextUid + 1 ELSE nextUid
    /\ req' = [req EXCEPT ![p] = NoForm]
    /\ AccountFrame

(***************************************************************************)
(* Private messages: the send_message and view_message routes and          *)
(* User.unread_message_count, for the messages addressed to one recipient  *)
(***************************************************************************)
Recipient == "alice"

MsgInit ==
    /\ messages = {}
    /\ nextMid = 1
    /\ last_message_read_time = 0
    /\ mclock = 0
    /\ mtxn = [p \in Procs |-> [pc |-> "idle"]]

MsgFrame == UNCHANGED <<graphVars, timelineVars, concVars, searchVars, nonMsgVars,
                        ntime, nlast>>

\* the store lets one transaction write at a time (SQLite): a transaction
\* that has written holds the lock until it commits
Writing(p) == mtxn[p].pc \in {"counted", "marked"}
MayWrite(p) == serialWrites => \A q \in Procs \ {p} : ~Writing(q)

\* the notification rows another open transaction has deleted are locked
Locked(p) == UNION {mtxn[q].deleted : q \in {r \in Procs \ {p} : Writing(r)}}

\* User.unread_message_count over the rows the transaction sees:
\* Message.timestamp > last_read_time, where NULL reads as datetime(1900, 1, 1)
unread_message_count(rows, last_read_time) ==
    Cardinality({m \in rows : m.timestamp > last_read_time})

\* send_message, line 164: the recipient is loaded, with its last_message_read_time
SendLoad(p) ==
    /\ mtxn[p].pc = "idle"
    /\ mclock < MaxMsgClock
    /\ mtxn' = [mtxn EXCEPT ![p] = [pc |-> "loaded", seen |-> last_message_read_time]]
    /\ UNCHANGED <<messages, nextMid, last_message_read_time, mclock, notifications, nextNid>>
    /\ MsgFrame

\* send_message, lines 167-169 up to the commit: the Message is added and
\* flushed by the count query (its timestamp default is taken now), the count
\* is taken over the committed messages and the new one, and add_notification
\* runs its DELETE
SendCount(p) ==
    /\ mtxn[p].pc = "loaded"
    /\ MayWrite(p)
    /\ mclock < MaxMsgClock
    /\ {n.id : n \in DeletedBy(Recipient, "unread_message_count")} \cap Locked(p) = {}
    /\ LET msg == [id |-> nextMid, timestamp |-> mclock + 1]
       IN  mtxn' = [mtxn EXCEPT ![p] =
                [pc |-> "counted", msg |-> msg,
                 count |-> unread_message_count(messages \cup {msg}, mtxn[p].seen),
                 deleted |-> {n.id : n \in DeletedBy(Recipient, "unread_message_count")}]]
    /\ mclock' = mclock + 1
    /\ nextMid' = nextMid + 1
    /\ UNCHANGED <<messages, last_message_read_time, notifications, nextNid>>
    /\ MsgFrame

\* send_message, line 170: db.session.commit() inserts the Notification and
\* makes the message, the DELETE and the notification visible
SendCommit(p) ==
    /\ mtxn[p].pc = "counted"
    /\ messages' = messages \cup {mtxn[p].msg}
    /\ notifications' = {n \in notifications : n.id \notin mtxn[p].deleted} \cup
           {Notification(nextNid, Recipient, "unread_message_count",
                         [int |-> mtxn[p].count], mclock)}
    /\ nextNid' = nextNid + 1
    /\ mtxn' = [mtxn EXCEPT ![p] = [pc |-> "idle"]]
    /\ UNCHANGED <<nextMid, last_message_read_time, mclock>>
    /\ MsgFrame

\* view_message, lines 179-180: last_message_read_time is set to now and
\* flushed by the DELETE of add_notification('unread_message_count', 0)
ViewMark(p) ==
    /\ mtxn[p].pc = "idle"
    /\ MayWrite(p)
    /\ mclock < MaxMsgClock
    /\ {n.id : n \in DeletedBy(Recipient, "unread_message_count")} \cap Locked(p) = {}
    /\ mtxn' = [mtxn EXCEPT ![p] =
           [pc |-> "marked", read |-> mclock + 1,
            deleted |-> {n.id : n \in DeletedBy(Recipient, "unread_message_count")}]]
    /\ mclock' = mclock + 1
    /\ UNCHANGED <<messages, nextMid, last_message_read_time, notifications, nextNid>>
    /\ MsgFrame

\* view_message, line 181: db.session.commit()
ViewCommit(p) ==
    /\ mtxn[p].pc = "marked"
    /\ last_message_read_time' = mtxn[p].read
    /\ notifications' = {n \in notifications : n.id \notin mtxn[p].deleted} \cup
           {Notification(nextNid, Recipient, "unread_message_count", [int |-> 0], mclock)}
    /\ nextNid' = nextNid + 1
    /\ mtxn' = [mtxn EXCEPT ![p] = [pc |-> "idle"]]
    /\ UNCHANGED <<messages, nextMid, mclock>>
    /\ MsgFrame

(***************************************************************************)
(* Specifications                                                          *)
(***************************************************************************)
LaterInit == EngineInit /\ TaskInit /\ TokenInit /\ AccountInit /\ MsgInit

Init ==
    /\ GraphInit /\ TimelineInit /\ NotifInit /\ ConcInit /\ SearchInit
    /\ serialWrites = FALSE
    /\ LaterInit

NextFollow ==
    \/ \E a, b \in Users : Follow(a, b)
    \/ \E a, b \in Users : Unfollow(a, b)
    \/ \E cur \in Users, username \in Usernames : FollowRoute(cur, username)
    \/ \E cur \in Users, username \in Usernames : UnfollowRoute(cur, username)

\* the follower graph under follow and unfollow, by method call and by route
SpecFollow == Init /\ [][NextFollow]_vars

NextTimeline ==
    \/ \E a, b \in Users : TFollow(a, b)
    \/ \E a, b \in Users : TUnfollow(a, b)
    \/ \E cur \in Users : NewPost(cur)
    \/ Tick

\* the timeline under follow, unfollow and post creation
SpecTimeline == Init /\ [][NextTimeline]_vars

NextNotifySeq ==
    \E self \in NUsers, name \in Names, data \in JsonValues, t \in {ntime, ntime + 1} :
        AddNotification(self, name, data, t)

\* the notification feed when every add_notification transaction runs alone
SpecNotifySeq == Init /\ [][NextNotifySeq]_vars

\* SQLALCHEMY_DATABASE_URI: SQLite by default, any other store by DATABASE_URL
InitNotifyConc ==
    /\ GraphInit /\ TimelineInit /\ NotifInit /\ ConcInit /\ SearchInit
    /\ serialWrites \in BOOLEAN
    /\ LaterInit

NextNotifyConc ==
    \/ \E p \in Procs, self \in NUsers, call \in Calls :
          DeleteStep(p, self, call[1], call[2])
    \/ \E p \in Procs, t \in {ntime, ntime + 1} : InsertStep(p, t)
    \/ \E p \in Procs : CommitStep(p)
    \/ Poll

\* the notification feed written by concurrent transactions and polled by a client
SpecNotifyConc == InitNotifyConc /\ [][NextNotifyConc]_vars

NextSearch ==
    \/ \E k \in Keys : \E body \in BodiesOf(k) : SessionAdd(k, body)
    \/ \E k \in Keys : \E body \in BodiesOf(k) : SessionModify(k, body)
    \/ \E k \in Keys : SessionDelete(k)
    \/ SessionFlush
    \/ SessionRollback
    \/ \E ok \in BOOLEAN : SessionCommit(ok)

\* one session under add, modify, delete, flush, rollback and commit, with the
\* commit hooks that mirror the searchable rows into the search engine
SpecSearch == Init /\ [][NextSearch]_vars

\* the engine is configured, reachable or not, or left out (ELASTICSEARCH_URL)
InitEngine ==
    /\ GraphInit /\ TimelineInit /\ NotifInit /\ ConcInit /\ SearchInit
    /\ serialWrites = FALSE
    /\ elasticsearch \in {"none", "up", "down"}
    /\ elast = NoSearchCall
    /\ TaskInit /\ TokenInit /\ AccountInit /\ MsgInit

NextEngine ==
    \/ \E k \in DocKeys, text \in Texts : AddToIndex(k, text)
    \/ \E k \in DocKeys : RemoveFromIndex(k)
    \/ \E query \in Terms, page \in 1..MaxPage, per_page \in PerPages :
          QueryIndex(query, page, per_page)
    \/ \E e \in {"none", "up", "down"} : EngineChange(e)

\* the functions of app/search.py called on their own
SpecEngine == InitEngine /\ [][NextEngine]_vars

NextMirror ==
    \/ \E k \in Keys : \E body \in BodiesOf(k) : SessionAdd(k, body)
    \/ \E k \in Keys : \E body \in BodiesOf(k) : SessionModify(k, body)
    \/ \E k \in Keys : SessionDelete(k)
    \/ SessionFlush
    \/ SessionRollback
    \/ \E ok \in BOOLEAN : SessionCommit(ok)
    \/ \E e \in {"none", "up", "down"} : EngineChange(e)

\* the session of SpecSearch with an engine that may be left out or down
SpecMirror == InitEngine /\ [][NextMirror]_vars

NextTasks ==
    \/ \E self \in NUsers, j \in JobIds : LaunchTask(self, j)
    \/ \E j \in JobIds : CommitTask(j)
    \/ \E u \in NUsers : PostCommitted(u)
    \/ \E j \in JobIds : StartJob(j)
    \/ \E j \in JobIds, fault \in BOOLEAN : LoadUser(j, fault)
    \/ \E j \in JobIds, t \in {ntime + 1} : ReportStart(j, t)
    \/ \E j \in JobIds, fault \in BOOLEAN : ReadPosts(j, fault)
    \/ \E j \in JobIds, t \in {ntime + 1}, fault \in BOOLEAN : LoopStep(j, t, fault)
    \/ \E j \in JobIds, fault \in BOOLEAN : SendEmail(j, fault)
    \/ \E j \in JobIds, t \in {ntime + 1} : ReportExcept(j, t)
    \/ \E j \in JobIds, t \in {ntime + 1} : ReportFinally(j, t)
    \/ \E progress \in {0, 100} : SetTaskProgressOutside(progress)

\* requests that launch export jobs and commit, and the worker that runs them
SpecTasks == Init /\ [][NextTasks]_vars

NextTokens ==
    \/ \E self \in NUsers, fresh \in TokenStrings : GetToken(self, fresh)
    \/ \E self \in NUsers : RevokeToken(self)
    \/ \E t \in TokenStrings : CheckToken(t)
    \/ \E d \in ClockSteps : AdvanceClock(d)

\* the API tokens of two accounts as time passes
SpecTokens == Init /\ [][NextTokens]_vars

NextAccounts ==
    \/ \E p \in Procs, name \in LoginNames, email \in Emails :
          RegisterValidate(p, name, email)
    \/ \E p \in Procs, cur \in accounts, name \in LoginNames : EditValidate(p, cur, name)
    \/ \E p \in Procs : CommitForm(p)

\* registrations and profile edits by two concurrent requests
SpecAccounts == Init /\ [][NextAccounts]_vars

NextMessages ==
    \/ \E p \in Procs : SendLoad(p)
    \/ \E p \in Procs : SendCount(p)
    \/ \E p \in Procs : SendCommit(p)
    \/ \E p \in Procs : ViewMark(p)
    \/ \E p \in Procs : ViewCommit(p)

\* two concurrent requests that send messages to one recipient or show the
\* recipient its messages, on a store that serializes writers or not
SpecMessages == InitNotifyConc /\ [][NextMessages]_vars

IsInjective(s) == \A i, j \in 1..Len(s) : s[i] = s[j] => i = j
Range(s) == {s[i] : i \in 1..Len(s)}

(***************************************************************************)
(* C1: after follow(A,B) is_following(A,B) holds, after unfollow(A,B) it   *)
(* does not; neither raises; the edge set after the operation is the edge  *)
(* set before it with (A,B) added, resp. removed, so that repeating the    *)
(* operation changes nothing.                                              *)
(***************************************************************************)
C1_After ==
    /\ last.op = "follow" => is_following(last.a, last.b) /\ ~raised
    /\ last.op = "unfollow" => ~is_following(last.a, last.b) /\ ~raised

C1_Step ==
    \A a, b \in Users, h \in BOOLEAN :
        /\ last' = [op |-> "follow", a |-> a, b |-> b, had |-> h]
              => followers' = followers \cup {<<a, b>>}
        /\ last' = [op |-> "unfollow", a |-> a, b |-> b, had |-> h]
              => followers' = followers \ {<<a, b>>}

\* C1: what holds after every follow and unfollow, and what each one changes
C1_FollowUnfollow == []C1_After /\ [][C1_Step]_vars

\* a follow repeated on an existing edge, and an unfollow repeated on a missing one
C1_Witness ==
    /\ last.op = "follow"
    /\ last.had
    /\ is_following(last.a, last.b)
    /\ ~raised
    /\ Cardinality(followers) >= 2

(***************************************************************************)
(* C2: following_posts(A) contains every post authored by A and no post    *)
(* twice, also with a self-follow edge (A,A) and with authors that have    *)
(* several followers.                                                      *)
(***************************************************************************)
C2_OwnPostsNoDuplicates ==
    \A A \in Users : \A s \in following_posts(A) :
        /\ \A p \in PostRows : p.author = A => p \in Range(s)
        /\ IsInjective(s)

\* A follows itself, has another follower too, and has written a post
C2_Witness ==
    \E A \in Users :
        /\ <<A, A>> \in followers
        /\ Cardinality(FollowersOf(A)) >= 2
        /\ \E p \in PostRows : p.author = A
        /\ \E s \in following_posts(A) : Len(s) >= 2

(***************************************************************************)
(* C3: following_posts(A) is exactly the posts written by A or by an       *)
(* account A follows, latest first; nothing else appears, so an account    *)
(* that follows nobody and has no posts gets an empty timeline.            *)
(***************************************************************************)
C3_ExactTimeline ==
    \A A \in Users :
        /\ following_posts(A) # {}
        /\ \A s \in following_posts(A) :
            /\ Range(s) = {p \in PostRows : p.author = A \/ <<A, p.author>> \in followers}
            /\ \A i, j \in 1..Len(s) : i < j => s[i].timestamp >= s[j].timestamp
            /\ ({e \in followers : e[1] = A} = {} /\ ~\E p \in PostRows : p.author = A)
                   => s = <<>>

\* alice follows bob, bob has posted, carol follows nobody: alice sees the
\* post among posts of two instants, carol sees nothing although posts exist
C3_Witness ==
    /\ <<"alice", "bob">> \in followers
    /\ {e \in followers : e[1] = "carol"} = {}
    /\ \E p \in PostRows : p.author = "bob"
    /\ ~\E p \in PostRows : p.author = "carol"
    /\ \E p, q \in PostRows : p.timestamp < q.timestamp
    /\ <<>> \in following_posts("carol")
    /\ \E s \in following_posts("alice") : Len(s) >= 2

(***************************************************************************)
(* C4: after add_notification(A, x, v2) run on its own, also right after   *)
(* add_notification(A, x, v1), A has exactly one notification named x, its *)
(* payload decodes to v2, and all other notifications are as they were.    *)
(***************************************************************************)
C4_After ==
    nlast.user # NoUser =>
        /\ Cardinality(Matching(nlast.user, nlast.name)) = 1
        /\ \A n \in Matching(nlast.user, nlast.name) : get_data(n) = nlast.data

C4_Step ==
    \A self \in NUsers, name \in Names :
        (nlast'.user = self /\ nlast'.name = name /\ nextNid' # nextNid) =>
            {n \in notifications' : ~(n.user_id = self /\ n.name = name)}
                = {n \in notifications : ~(n.user_id = self /\ n.name = name)}

\* C4: what holds after every add_notification run on its own, and what it changes
C4_Coalesce == []C4_After /\ [][C4_Step]_vars

\* the call replaced a notification of the same name that held another payload,
\* while the account's other notification and another account's one exist
C4_Witness ==
    /\ nlast.user # NoUser
    /\ nlast.replaced
    /\ \E n \in notifications :
          n.user_id = nlast.user /\ n.name # nlast.name /\ n.id < nextNid - 2
    /\ \A n \in Matching(nlast.user, nlast.name) :
          n.id = nextNid - 1 /\ get_data(n) = nlast.data /\ nlast.data # [int |-> 0]

(***************************************************************************)
(* C6: the notifications route called by A with parameter since returns    *)
(* exactly A's notifications with timestamp > since, each once, as         *)
(* {name, decoded payload, timestamp}, in ascending timestamp order; with  *)
(* no parameter since is 0. The payload of the notification written last   *)
(* decodes to the data that was passed.                                    *)
(***************************************************************************)
C6_Endpoint ==
    \A cur \in NUsers, args \in Args :
        LET since == IF args.has THEN args.since ELSE 0
            expected == {n \in notifications : n.user_id = cur /\ n.timestamp > since}
        IN  /\ notifications_route(cur, args) # {}
            /\ \A s \in notifications_route(cur, args) :
                /\ Len(s) = Cardinality(expected)
                /\ Range(s) = {[name |-> n.name, data |-> json_loads(n.payload_json),
                                timestamp |-> n.timestamp] : n \in expected}
                /\ \A i, j \in 1..Len(s) : i < j => s[i].timestamp <= s[j].timestamp
                /\ \A i \in 1..Len(s) :
                      (cur = nlast.user /\ s[i].name = nlast.name) => s[i].data = nlast.data

\* alice has two notifications of different instants and bob has one: polled
\* with the earlier instant alice gets only the later one, with no parameter both
C6_Witness ==
    \E n1, n2, n3 \in notifications :
        /\ n1.user_id = "alice" /\ n2.user_id = "alice" /\ n3.user_id = "bob"
        /\ n1.timestamp < n2.timestamp
        /\ n3.timestamp = n2.timestamp
        /\ notifications_route("alice", [has |-> TRUE, since |-> n1.timestamp])
              = {<<Item(n2)>>}
        /\ notifications_route("alice", [has |-> FALSE, since |-> 0])
              = {<<Item(n1), Item(n2)>>}

(***************************************************************************)
(* C8: for a fixed account and store, t1 <= t2 implies that the result for *)
(* since = t2 is a subset of (and no longer than) the result for since =   *)
(* t1, and the result is empty when since is at or after the account's     *)
(* latest notification timestamp.                                          *)
(***************************************************************************)
C8_Monotone ==
    \A A \in NUsers :
        /\ \A t1, t2 \in 0..(MaxNTime + 1) : t1 <= t2 =>
              \A s1 \in notifications_route(A, [has |-> TRUE, since |-> t1]),
                 s2 \in notifications_route(A, [has |-> TRUE, since |-> t2]) :
                  Range(s2) \subseteq Range(s1) /\ Len(s2) <= Len(s1)
        /\ \A t \in 0..(MaxNTime + 1) :
              (\A n \in notifications : n.user_id = A => t >= n.timestamp) =>
                  notifications_route(A, [has |-> TRUE, since |-> t]) = {<<>>}

\* an account with notifications of two instants: 2, 1 and 0 results as since grows
C8_Witness ==
    \E n1, n2 \in notifications :
        /\ n1.user_id = "alice" /\ n2.user_id = "alice"
        /\ n1.timestamp < n2.timestamp
        /\ \A s \in notifications_route("alice", [has |-> TRUE, since |-> 0]) : Len(s) = 2
        /\ \A s \in notifications_route("alice", [has |-> TRUE, since |-> n1.timestamp]) :
              Len(s) = 1
        /\ notifications_route("alice", [has |-> TRUE, since |-> n2.timestamp]) = {<<>>}

(***************************************************************************)
(* C5: the store never holds more than one notification per (account,      *)
(* name), also when add_notification calls of concurrent request handlers  *)
(* and worker jobs interleave their delete, insert and commit steps.       *)
(***************************************************************************)
C5_AtMostOnePerName ==
    \A self \in NUsers, name \in Names : Cardinality(Matching(self, name)) <= 1

(***************************************************************************)
(* C7: a client that polls with the largest timestamp received so far gets *)
(* no row twice, and misses no row of its account that is later than one   *)
(* it already received: such a row, while not yet received, is still ahead *)
(* of the cursor (a row at or behind the cursor is never returned again,   *)
(* the cursor only grows). Timestamps of the account are assumed distinct. *)
(***************************************************************************)
ClientRows ==
    {<<n.id, n.timestamp>> : n \in {x \in notifications : x.user_id = Client}}
        \cup received
        \cup {<<n.id, n.timestamp>> :
                n \in {x \in UNION {txn[p].row : p \in Procs} : x.user_id = Client}}

NoSharedTimestamp == \A x, y \in ClientRows : x[2] = y[2] => x[1] = y[1]

\* C7: no row is delivered twice and no later row ends up behind the cursor
C7_PollingMissesNothing ==
    /\ ~redelivered
    /\ NoSharedTimestamp =>
          \A n \in notifications :
              (/\ n.user_id = Client
               /\ <<n.id, n.timestamp>> \notin received
               /\ \E r \in received : r[2] < n.timestamp)
                  => n.timestamp > cursor

(***************************************************************************)
(* C9: the search index changes only in a commit that succeeded, and what  *)
(* is written then is a committed row of a searchable table; a flush, a    *)
(* rollback and a commit that fails leave the index as it was.             *)
(***************************************************************************)
C9_Step ==
    index' # index =>
        /\ sop' = "commit"
        /\ \A d \in index' \ index : IsSearchable(d) /\ d \in store'

\* C9: every step that changes the index is a commit that succeeded
C9_IndexOnlyAfterCommit == [][C9_Step]_vars

\* a commit failed, with posts in the index, and the index holds what is committed
C9_Witness ==
    /\ sop = "commit_failed"
    /\ index # {}
    /\ index = {r \in store : IsSearchable(r)}
    /\ \E r \in store : ~IsSearchable(r)

(***************************************************************************)
(* C10: after a commit that succeeded, every searchable row the            *)
(* transaction added or changed has its document, holding the row's        *)
(* fields, and every searchable row it deleted has none, also when the     *)
(* changes were flushed before commit was called.                          *)
(***************************************************************************)
C10_Step ==
    sop' = "commit" =>
        \A k \in Keys : IsSearchable(k) =>
            /\ (k \in KeysOf(store') /\ RowOf(store', k) \notin store)
                  => RowOf(store', k) \in index'
            /\ (k \in KeysOf(store) /\ k \notin KeysOf(store'))
                  => k \notin KeysOf(index')

\* C10: every commit that succeeded leaves the index in step with its changes
C10_IndexFollowsCommit == [][C10_Step]_vars

(***************************************************************************)
(* C11: with a configured engine, after add_to_index(index, e) a query for *)
(* a term of e's searchable field returns e's id in the page that covers   *)
(* its rank, whatever the ranking; after remove_from_index(index, e) no    *)
(* query returns e's id; indexing e again keeps one document for its id.   *)
(***************************************************************************)
RankOf(ranked, k) == CHOOSE i \in 1..Len(ranked) : KeyOf(ranked[i]) = k

C11_Added ==
    (elast.op = "add" /\ elast.engine = "up" /\ elasticsearch = "up") =>
        /\ Cardinality({d \in index : KeyOf(d) = elast.key}) = 1
        /\ \A term \in Tokens(elast.body), per_page \in PerPages :
              \A ranked \in Rankings(Hits(index, "post", term)) :
                  /\ elast.key \in {KeyOf(ranked[i]) : i \in 1..Len(ranked)}
                  /\ LET page == ((RankOf(ranked, elast.key) - 1) \div per_page) + 1
                     IN  elast.key.id \in Range(page_ids(ranked, page, per_page))

C11_Removed ==
    (elast.op = "remove" /\ elast.engine = "up" /\ elasticsearch = "up") =>
        \A term \in Terms, page \in 1..MaxPage, per_page \in PerPages :
            \A res \in query_index(index, "post", term, page, per_page) :
                elast.key.id \notin Range(res.ids)

\* C11: a document is found by the terms of its text from add_to_index until remove_from_index
C11_RoundTrip == C11_Added /\ C11_Removed

\* the same post indexed a second time, with another text, among three documents
C11_Witness ==
    /\ elast.op = "add"
    /\ elast.engine = "up"
    /\ elasticsearch = "up"
    /\ elast.body = "hello bye"
    /\ Cardinality(index) = 3
    /\ \E res \in query_index(index, "post", "bye", 2, 2) :
          res.ids = <<elast.key.id>> /\ res.total = 3

(***************************************************************************)
(* C12: when the engine is unconfigured or unavailable, add_to_index and   *)
(* remove_from_index are no-ops that raise nothing, query_index and        *)
(* Post.search return ([], 0), and the commit whose after_commit hook      *)
(* called them stays committed and returns normally to the request         *)
(* handler.                                                                *)
(***************************************************************************)
Empty == [ids |-> <<>>, total |-> 0, raised |-> FALSE]
NoRows == [rows |-> <<>>, total |-> 0, raised |-> FALSE]

C12_Queries ==
    elasticsearch # "up" =>
        \A term \in Terms, page \in 1..MaxPage, per_page \in PerPages :
            /\ query_index(index, "post", term, page, per_page) = {Empty}
            /\ search("post", term, page, per_page) = {NoRows}

C12_Step ==
    (elasticsearch # "up" /\ elasticsearch' = elasticsearch /\ sop' = "commit") =>
        /\ ~hookRaised'
        /\ index' = index
        /\ store' = Flushed

\* C12: an engine that is left out or down changes no outcome of a commit or of a search
C12_EngineFailuresAbsorbed == []C12_Queries /\ [][C12_Step]_vars

(***************************************************************************)
(* C13: when export_posts returns from a job in which the try block raised *)
(* (before the first report, between two reports or while sending the      *)
(* mail), the job's Task is complete and its owner has exactly one         *)
(* 'task_progress' notification, carrying the job's id and progress 100.   *)
(***************************************************************************)
ProgressRows(rows, u) == {n \in rows : n.user_id = u /\ n.name = "task_progress"}

C13_Step ==
    \A j \in JobIds :
        (job[j].pc = "finally" /\ job'[j].pc = "returned" /\ job[j].exc # "") =>
            /\ \E t \in tasks' : t.id = j /\ t.complete
            /\ Cardinality(ProgressRows(notifications', job[j].user)) = 1
            /\ \A n \in ProgressRows(notifications', job[j].user) :
                  get_data(n) = [task_id |-> j, progress |-> 100]

\* C13: a job that raised ends with its Task complete and one notification at progress 100
C13_Finalized == [][C13_Step]_vars

\* export_posts has returned from a job that raised while sending the mail
C13_Witness ==
    /\ job["job1"].pc = "returned"
    /\ job["job1"].exc = "mail"
    /\ \E t \in tasks : t.id = "job1" /\ t.complete
    /\ \E n \in ProgressRows(notifications, job["job1"].user) :
          get_data(n) = [task_id |-> "job1", progress |-> 100]

(***************************************************************************)
(* C14: every Task created by launch_task ends up complete once the worker *)
(* has run its job to the end, and get_tasks_in_progress then no longer    *)
(* lists it, for every interleaving of the request (enqueue, add, commit   *)
(* later) with the worker. Nothing but the job completes a Task, so the    *)
(* claim requires that a job that has ended has a complete Task as soon as *)
(* the Task row is committed.                                              *)
(***************************************************************************)
Ended(j) == job[j].pc \in {"returned", "escaped"}

\* C14: the Task of a job that has run to its end is complete and no longer in progress
C14_EndedJobsComplete ==
    \A j \in JobIds : \A t \in tasks :
        (Ended(j) /\ t.id = j) =>
            /\ t.complete
            /\ t \notin get_tasks_in_progress(t.user_id)

(***************************************************************************)
(* C18: _set_task_progress(p) in a job whose Task row exists stores p as   *)
(* the job's progress meta, replaces the owner's 'task_progress'           *)
(* notification by one with payload {task_id, progress: p}, completes the  *)
(* Task iff p >= 100 (a complete flag is otherwise left as it was) and     *)
(* commits; called outside a job it changes nothing.                       *)
(***************************************************************************)
C18_Step ==
    tlast'.calls # tlast.calls =>
        LET j == tlast'.job
            p == tlast'.progress
        IN  IF j = "none"
            THEN UNCHANGED <<tasks, notifications, job>>
            ELSE /\ job'[j].meta = p
                 /\ TaskFound(j) =>
                      LET task == CHOOSE r \in tasks : r.id = j
                      IN  /\ ProgressRows(notifications', task.user_id) =
                                 {Notification(nextNid, task.user_id, "task_progress",
                                               [task_id |-> j, progress |-> p], ntime')}
                          /\ \A n \in ProgressRows(notifications', task.user_id) :
                                 get_data(n) = [task_id |-> j, progress |-> p]
                          /\ notifications' \ ProgressRows(notifications', task.user_id)
                                 = notifications \ ProgressRows(notifications, task.user_id)
                          /\ tasks' = (tasks \ {task}) \cup
                                 {[task EXCEPT !.complete = task.complete \/ p >= 100]}

\* C18: what one call of _set_task_progress changes
C18_SetTaskProgress == [][C18_Step]_vars

\* a report of progress 50 has replaced the notification of the report of 0
C18_Witness ==
    /\ tlast.job = "job1"
    /\ tlast.progress = 50
    /\ tlast.ok
    /\ job["job1"].meta = 50
    /\ nextNid = 3
    /\ \E t \in tasks : t.id = "job1" /\ ~t.complete
    /\ \E n \in notifications : get_data(n) = [task_id |-> "job1", progress |-> 50]

(***************************************************************************)
(* C19: a committed launch_task creates exactly one Task row, with the     *)
(* job's id, owned by the launcher and not complete; the row is never      *)
(* deleted, its complete flag changes only in _set_task_progress and only  *)
(* from false to true; get_tasks_in_progress returns exactly the account's *)
(* Tasks that are not complete.                                            *)
(***************************************************************************)
Ids(rows) == {t.id : t \in rows}

C19_Rows ==
    /\ \A t1, t2 \in tasks : t1.id = t2.id => t1 = t2
    /\ \A t \in tasks : job[t.id].pc # "none" /\ job[t.id].user = t.user_id
    /\ \A u \in NUsers :
          get_tasks_in_progress(u) =
              {t \in tasks : t.user_id = u} \ {t \in tasks : t.complete}

C19_Step ==
    /\ \A t \in tasks : \E t2 \in tasks' :
          /\ t2.id = t.id
          /\ t2.user_id = t.user_id
          /\ t2.complete # t.complete =>
                /\ ~t.complete
                /\ tlast'.calls # tlast.calls
                /\ tlast'.job = t.id
    /\ \A t2 \in tasks' :
          t2.id \notin Ids(tasks) =>
              /\ t2 = [id |-> t2.id, user_id |-> job[t2.id].user, complete |-> FALSE]
              /\ t2 \in added
              /\ Cardinality(tasks') = Cardinality(tasks) + 1

\* C19: the life of a Task row
C19_TaskLifecycle == []C19_Rows /\ [][C19_Step]_vars

\* two accounts with a Task each, one complete and one in progress
C19_Witness ==
    /\ \E t \in tasks : t.id = "job1" /\ t.user_id = "alice" /\ t.complete
    /\ \E t \in tasks : t.id = "job2" /\ t.user_id = "bob" /\ ~t.complete
    /\ get_tasks_in_progress("alice") = {}
    /\ Cardinality(get_tasks_in_progress("bob")) = 1

(***************************************************************************)
(* C20: export_posts never lets an exception escape to the worker,         *)
(* whichever step raises, the progress reports of the except and finally   *)
(* blocks included: it always returns normally.                            *)
(***************************************************************************)
\* C20: no run of export_posts ends with an exception
C20_NothingEscapes == \A j \in JobIds : job[j].pc # "escaped"

(***************************************************************************)
(* C15: check_token(t) returns account U only if t is U's stored token and *)
(* U's token_expiration has not passed, and None otherwise; after          *)
(* U.revoke_token() check_token of U's token returns None; a token never   *)
(* authenticates an account it was not issued to, after any sequence of    *)
(* get_token, revoke_token and clock advances.                             *)
(***************************************************************************)
C15_OnlyIf ==
    \A t \in TokenStrings :
        /\ \A U \in NUsers :
              check_token(t) = U =>
                  /\ token[U] = t
                  /\ token_expiration[U] >= utcnow
                  /\ U \in issued[t]
        /\ check_token(t) = NoUser <=>
              ~\E U \in NUsers : token[U] = t /\ token_expiration[U] >= utcnow

C15_Revoked ==
    \A U \in revoked : token[U] # NoToken => check_token(token[U]) = NoUser

\* C15: what a token authenticates
C15_CheckToken == C15_OnlyIf /\ C15_Revoked

\* bob's token was revoked and is refused while alice's token, issued 3600
\* seconds ago, is still accepted
C15_Witness ==
    /\ klast.op = "revoke"
    /\ klast.user = "bob"
    /\ token["bob"] # NoToken
    /\ check_token(token["bob"]) = NoUser
    /\ token_expiration["alice"] = utcnow
    /\ check_token(token["alice"]) = "alice"

(***************************************************************************)
(* C16: a registration with a taken username or email and a profile edit   *)
(* to a taken username end as form validation failures, never as an        *)
(* exception, and change no account, so that no two accounts share a       *)
(* username or an email; also when two concurrent requests submit the same *)
(* new username or email and both validate before either commits.          *)
(***************************************************************************)
C16_Unique ==
    \A u1, u2 \in accounts :
        (u1.username = u2.username \/ u1.email = u2.email) => u1 = u2

\* C16: taken names are refused by validation, never by an exception
C16_TakenIsValidationFailure ==
    /\ C16_Unique
    /\ \A p \in Procs : outcome[p] # "exception"

(***************************************************************************)
(* C17: after a send_message request to R commits, R has exactly one       *)
(* 'unread_message_count' notification and its payload is the number of    *)
(* messages to R later than R's last_message_read_time, the new message    *)
(* included; after a view_message request of R commits, the payload is 0;  *)
(* for any interleaving of concurrent send_message and view_message        *)
(* requests.                                                               *)
(***************************************************************************)
CountRows(rows) ==
    {n \in rows : n.user_id = Recipient /\ n.name = "unread_message_count"}

C17_Step ==
    \A p \in Procs :
        /\ (mtxn[p].pc = "counted" /\ mtxn'[p].pc = "idle") =>
              /\ Cardinality(CountRows(notifications')) = 1
              /\ \A n \in CountRows(notifications') :
                    get_data(n) =
                        [int |-> unread_message_count(messages', last_message_read_time')]
        /\ (mtxn[p].pc = "marked" /\ mtxn'[p].pc = "idle") =>
              /\ Cardinality(CountRows(notifications')) = 1
              /\ \A n \in CountRows(notifications') : get_data(n) = [int |-> 0]

\* C17: the unread count shown after each committed send_message and view_message
C17_UnreadCount == [][C17_Step]_vars

(***************************************************************************)
(* C21: SearchableMixin.search returns the entities of the ids the engine  *)
(* returned, in the engine's order and not in the order of their ids; an   *)
(* id whose row no longer exists in the store is left out without error    *)
(* while the total stays the engine's total; for a total of 0 the result   *)
(* is ([], 0).                                                             *)
(***************************************************************************)
RowIds(rows) == [i \in 1..Len(rows) |-> rows[i].id]

C21_Hydrated(res, out) ==
    LET Stored(id) == [cls |-> "post", id |-> id] \in KeysOf(Flushed)
    IN  /\ ~out.raised
        /\ out.total = res.total
        /\ RowIds(out.rows) = SelectSeq(res.ids, Stored)
        /\ \A i \in 1..Len(out.rows) : out.rows[i] \in Flushed

C22_Got(self) ==
    /\ klast'.op = "get"
    /\ klast'.user = self
    /\ utcnow' = utcnow

C22_Step ==
    \A self \in NUsers :
        C22_Got(self) =>
            IF token[self] # NoToken /\ token_expiration[self] - utcnow > 60
            THEN /\ token'[self] = token[self]
                 /\ token_expiration'[self] = token_expiration[self]
            ELSE /\ token'[self] \in TokenStrings
                 /\ self \in issued'[token'[self]]
                 /\ token_expiration'[self] = utcnow + 3600
                 /\ self \notin revoked'

C22_Accepted ==
    \A self \in NUsers :
        token[self] # NoToken /\ token_expiration[self] >= utcnow =>
            check_token(token[self]) = self

\* C22: get_token reuses a token inside its window and replaces it outside
C22_GetToken == [][C22_Step]_vars /\ []C22_Accepted

\* at one instant bob was issued one token and then the other, which only a
\* revoke_token between the two calls allows; check_token accepts the second
C22_Witness ==
    /\ klast = [op |-> "get", user |-> "bob"]
    /\ utcnow = 0
    /\ "bob" \in issued["a1"]
    /\ "bob" \in issued["b2"]
    /\ token["bob"] = "b2"
    /\ token_expiration["bob"] = expires_in
    /\ check_token("b2") = "bob"

(***************************************************************************)
(* C23: in one run of export_posts the progress values passed to           *)
(* _set_task_progress start at 0, never decrease, stay within 0..100 and   *)
(* end at 100, for every number of posts, zero included (no division by    *)
(* zero), also when posts are committed for the user between the count     *)
(* query and the iteration over the posts.  Stated for the runs in which   *)
(* the Task row exists and no query and no mail delivery fails.            *)
(***************************************************************************)
\* the call of _set_task_progress made by this step of job j
C23_Reported(j) ==
    /\ tlast' # tlast
    /\ tlast'.job = j
    /\ tlast'.ok
    /\ job[j].exc \in {"", "division"}

C23_Step ==
    \A j \in JobIds :
        C23_Reported(j) =>
            /\ tlast'.progress \in 0..100
            /\ job[j].pc = "report0" => tlast'.progress = 0
            /\ job[j].pc # "report0" => tlast'.progress >= job[j].meta
            /\ job'[j].pc = "returned" => tlast'.progress = 100

C23_NoDivisionByZero == \A j \in JobIds : job[j].exc # "division"

\* C23: the progress values of a run rise from 0 to 100
C23_ProgressSequence == [][C23_Step]_vars /\ []C23_NoDivisionByZero

\* the same without the division: the values stay within 0..100 and never
\* decrease
C23_ProgressInRange == [][C23_Step]_vars

====
